---- MODULE Spec2Model ----
\* A model of the Tauri backend of monash-nimbus-reports: the keyring-backed
\* credential commands (commands/credentials.rs), the HTTP/OData client
\* (commands/http.rs) and the release check (commands/version.rs).
\*
\* Rust strings are sequences of one-character strings, so that format!,
\* ends_with, replace, trim_end_matches and split act on characters.
\* Option<T> is a sequence of length 0 (None) or 1 (Some).
EXTENDS Integers, Sequences, FiniteSets, TLC

VARIABLES
    keyring,    \* the OS secret store: composite key -> stored JSON
    saved,      \* history: (kind, profile name) -> the value last saved and not deleted
    credLast,   \* the last credential command and its result
    request,    \* the HTTP or version command the frontend invokes, with its arguments
    network,    \* what the client build and the remote server do during that command
    reply       \* what the command returned and the requests it issued

credVars == <<keyring, saved, credLast>>

callVars == <<request, network, reply>>

vars == <<keyring, saved, credLast, request, network, reply>>

--------------------------------------------------------------------------
\* Option and Result

None == <<>>

Some(x) == <<x>>

IsSome(o) == Len(o) = 1

Ok(v) == [ok |-> TRUE, val |-> v]

Err(m, c) == [ok |-> FALSE, msg |-> m, cause |-> c]

--------------------------------------------------------------------------
\* str and String methods of the Rust standard library used by the commands

\* str::ends_with(&str)
EndsWith(s, suf) ==
    /\ Len(suf) <= Len(s)
    /\ SubSeq(s, Len(s) - Len(suf) + 1, Len(s)) = suf

\* str::starts_with(&str)
StartsWith(s, pre) ==
    /\ Len(pre) <= Len(s)
    /\ SubSeq(s, 1, Len(pre)) = pre

RECURSIVE TrimEndMatches(_, _)
\* str::trim_end_matches(char): every trailing occurrence is removed
TrimEndMatches(s, c) ==
    IF Len(s) > 0 /\ s[Len(s)] = c
    THEN TrimEndMatches(SubSeq(s, 1, Len(s) - 1), c)
    ELSE s

RECURSIVE TrimStartMatches(_, _)
\* str::trim_start_matches(char): every leading occurrence is removed
TrimStartMatches(s, c) ==
    IF Len(s) > 0 /\ s[1] = c
    THEN TrimStartMatches(Tail(s), c)
    ELSE s

RECURSIVE Replace(_, _, _)
\* str::replace(from, to): every non-overlapping match, left to right
Replace(s, from, to) ==
    IF Len(s) = 0 THEN <<>>
    ELSE IF StartsWith(s, from)
    THEN to \o Replace(SubSeq(s, Len(from) + 1, Len(s)), from, to)
    ELSE <<s[1]>> \o Replace(Tail(s), from, to)

RECURSIVE SplitFrom(_, _, _)
SplitFrom(s, c, cur) ==
    IF Len(s) = 0 THEN <<cur>>
    ELSE IF s[1] = c THEN <<cur>> \o SplitFrom(Tail(s), c, <<>>)
    ELSE SplitFrom(Tail(s), c, Append(cur, s[1]))

\* str::split(char): the pieces between the separators, empty pieces included
Split(s, c) == SplitFrom(s, c, <<>>)

RECURSIVE Join(_, _)
\* [String]::join(&str)
Join(parts, sep) ==
    IF Len(parts) = 0 THEN <<>>
    ELSE IF Len(parts) = 1 THEN parts[1]
    ELSE parts[1] \o sep \o Join(Tail(parts), sep)

Digits == <<"0", "1", "2", "3", "4", "5", "6", "7", "8", "9">>

IsDigit(c) == \E d \in 1..10 : Digits[d] = c

DigitValue(c) == (CHOOSE d \in 1..10 : Digits[d] = c) - 1

RECURSIVE NatToString(_)
NatToString(n) ==
    IF n < 10 THEN <<Digits[n + 1]>>
    ELSE NatToString(n \div 10) \o <<Digits[(n % 10) + 1]>>

\* Display for i32: decimal digits, '-' before a negative number
I32ToString(n) == IF n < 0 THEN <<"-">> \o NatToString(0 - n) ELSE NatToString(n)

RECURSIVE DigitsToNat(_, _)
DigitsToNat(s, acc) ==
    IF Len(s) = 0 THEN acc ELSE DigitsToNat(Tail(s), acc * 10 + DigitValue(s[1]))

AllDigits(s) == Len(s) > 0 /\ \A i \in 1..Len(s) : IsDigit(s[i])

\* str::parse::<i32>() of a serialized number, as an Option
ParseI32(s) ==
    IF Len(s) > 1 /\ s[1] = "-" /\ AllDigits(Tail(s))
    THEN Some(0 - DigitsToNat(Tail(s), 0))
    ELSE IF AllDigits(s) THEN Some(DigitsToNat(s, 0))
    ELSE None

--------------------------------------------------------------------------
\* serde_json for the derived Serialize/Deserialize of the credential records.
\* A JSON object is the sequence of its <<field, text>> members in
\* declaration order; a string's text is the string between quotes, a
\* number's text its decimal digits.

Quote == "\""

JsonString(s) == <<Quote>> \o s \o <<Quote>>

IsJsonString(t) == Len(t) >= 2 /\ t[1] = Quote /\ t[Len(t)] = Quote

UnJsonString(t) == SubSeq(t, 2, Len(t) - 1)

HasField(j, f) == \E i \in 1..Len(j) : j[i][1] = f

Field(j, f) == j[CHOOSE i \in 1..Len(j) : j[i][1] = f][2]

Present(member) == member[2] # None

\* #[serde(skip_serializing_if = "Option::is_none")]: a None member is left out
OptString(name, o) == <<name, IF IsSome(o) THEN JsonString(o[1]) ELSE None>>

OptNumber(name, o) == <<name, IF IsSome(o) THEN I32ToString(o[1]) ELSE None>>

\* Option<String> field of a deserialized object: a missing member is None
ReadOptString(j, f) ==
    IF HasField(j, f) THEN Some(UnJsonString(Field(j, f))) ELSE None

ReadOptNumber(j, f) ==
    IF HasField(j, f) THEN ParseI32(Field(j, f)) ELSE None

SerializeCredentialsNoUserId(c) ==
    SelectSeq(<< <<"base_url", JsonString(c.base_url)>>,
                 <<"auth_mode", JsonString(c.auth_mode)>>,
                 OptString("auth_token", c.auth_token),
                 OptString("app_token", c.app_token),
                 OptString("username", c.username) >>, Present)

SerializeCredentials(c) ==
    SelectSeq(<< <<"base_url", JsonString(c.base_url)>>,
                 <<"auth_mode", JsonString(c.auth_mode)>>,
                 OptNumber("user_id", c.user_id),
                 OptString("auth_token", c.auth_token),
                 OptString("app_token", c.app_token),
                 OptString("username", c.username) >>, Present)

DeserializeCredentials(j) ==
    IF HasField(j, "base_url") /\ HasField(j, "auth_mode")
    THEN Ok([base_url |-> UnJsonString(Field(j, "base_url")),
             auth_mode |-> UnJsonString(Field(j, "auth_mode")),
             user_id |-> ReadOptNumber(j, "user_id"),
             auth_token |-> ReadOptString(j, "auth_token"),
             app_token |-> ReadOptString(j, "app_token"),
             username |-> ReadOptString(j, "username")])
    ELSE Err("Failed to deserialize credentials", "missing field")

SerializeLoginCredentials(c) ==
    << <<"username", JsonString(c.username)>>,
       <<"password", JsonString(c.password)>> >>

DeserializeLoginCredentials(j) ==
    IF HasField(j, "username") /\ HasField(j, "password")
    THEN Ok([username |-> UnJsonString(Field(j, "username")),
             password |-> UnJsonString(Field(j, "password"))])
    ELSE Err("Failed to deserialize login credentials", "missing field")

SerializeAppTokenCredentials(c) ==
    << <<"app_token", JsonString(c.app_token)>>,
       <<"username", JsonString(c.username)>> >>

DeserializeAppTokenCredentials(j) ==
    IF HasField(j, "app_token") /\ HasField(j, "username")
    THEN Ok([app_token |-> UnJsonString(Field(j, "app_token")),
             username |-> UnJsonString(Field(j, "username"))])
    ELSE Err("Failed to deserialize app token credentials", "missing field")

--------------------------------------------------------------------------
\* The keyring crate's Entry over the OS secret store: one password per
\* (service, key); the store is a function from the keys that hold an entry.

NoEntry == "NoEntry"

Unit == "()"

\* Entry::set_password: creates or overwrites the entry
SetPassword(store, key, pw) ==
    [k \in (DOMAIN store) \cup {key} |-> IF k = key THEN pw ELSE store[k]]

\* Entry::get_password: Error::NoEntry when the key holds nothing
GetPassword(store, key) ==
    IF key \in DOMAIN store THEN Ok(store[key]) ELSE Err("keyring", NoEntry)

\* Entry::delete_credential: Error::NoEntry when the key holds nothing
DeleteCredential(store, key) ==
    [k \in (DOMAIN store) \ {key} |-> store[k]]

ProfilePrefix == <<"p", "r", "o", "f", "i", "l", "e", ":">>

LoginPrefix == <<"l", "o", "g", "i", "n", ":">>

AppTokenPrefix == <<"a", "p", "p", "t", "o", "k", "e", "n", ":">>

\* format!("profile:{}", profile_name)
GetEntry(profile_name) == ProfilePrefix \o profile_name

GetLoginEntrySharedPrefix(profile_name) == ProfilePrefix \o profile_name

\* format!("login:{}", profile_name)
GetLoginEntry(profile_name) == LoginPrefix \o profile_name

\* format!("apptoken:{}", profile_name)
GetApptokenEntry(profile_name) == AppTokenPrefix \o profile_name

\* ---- the inputs of the credential commands

\* how many of the profile names below the frontend uses
NumNames == 2

ProfileNameList ==
    << <<"a">>,
       <<"l", "o", "g", "i", "n", ":", "a">>,
       <<"a", ":">>,
       <<>> >>

ProfileNames ==
    {ProfileNameList[i] : i \in 1..(IF NumNames < 4 THEN NumNames ELSE 4)}

Kinds == {"profile", "login", "apptoken"}

CredentialMode == <<"c", "r", "e", "d">>

AppTokenMode == <<"a", "p", "p">>

CredentialsValues ==
    { [base_url |-> <<"h", "/">>, auth_mode |-> CredentialMode,
       user_id |-> Some(-12), auth_token |-> Some(<<"t", "1">>),
       app_token |-> None, username |-> None],
      [base_url |-> <<"h">>, auth_mode |-> AppTokenMode,
       user_id |-> None, auth_token |-> None,
       app_token |-> Some(<<"k">>), username |-> Some(<<"u">>)] }

LoginCredentialsValues ==
    { [username |-> <<"u">>, password |-> <<"p", ":", "w">>],
      [username |-> <<"u">>, password |-> <<>>] }

AppTokenCredentialsValues ==
    { [app_token |-> <<"k">>, username |-> <<"u">>],
      [app_token |-> <<"k", "2">>, username |-> <<"u">>] }

\* ---- the nine commands

Done(cmd, kind, name, key, result) ==
    [cmd |-> cmd, kind |-> kind, name |-> name, touched |-> {key},
     result |-> result]

\* the three save commands after serialization: entry.set_password
SaveAt(kind, name, key, json, credentials) ==
    /\ keyring' = SetPassword(keyring, key, json)
    /\ saved' = [saved EXCEPT ![<<kind, name>>] = Some(credentials)]
    /\ credLast' = Done("save", kind, name, key, Ok(Unit))
    /\ UNCHANGED callVars

\* a load command: entry.get_password, then serde_json::from_str
LoadAt(kind, name, key, msg, parsed) ==
    /\ credLast' = Done("load", kind, name, key,
                       IF GetPassword(keyring, key).ok THEN parsed
                       ELSE Err(msg, GetPassword(keyring, key).cause))
    /\ UNCHANGED <<keyring, saved>>
    /\ UNCHANGED callVars

\* a delete command: entry.delete_credential
DeleteAt(kind, name, key, msg) ==
    IF GetPassword(keyring, key).ok
    THEN /\ keyring' = DeleteCredential(keyring, key)
         /\ saved' = [saved EXCEPT ![<<kind, name>>] = None]
         /\ credLast' = Done("delete", kind, name, key, Ok(Unit))
         /\ UNCHANGED callVars
    ELSE /\ credLast' = Done("delete", kind, name, key, Err(msg, NoEntry))
         /\ UNCHANGED <<keyring, saved>>
         /\ UNCHANGED callVars

StoredJson(key) == IF key \in DOMAIN keyring THEN keyring[key] ELSE <<>>

SaveCredentials ==
    \E profile_name \in ProfileNames, credentials \in CredentialsValues :
        SaveAt("profile", profile_name, GetEntry(profile_name),
               SerializeCredentials(credentials), credentials)

LoadCredentials ==
    \E profile_name \in ProfileNames :
        LoadAt("profile", profile_name, GetEntry(profile_name),
               "Failed to load credentials from keyring",
               DeserializeCredentials(StoredJson(GetEntry(profile_name))))

DeleteCredentials ==
    \E profile_name \in ProfileNames :
        DeleteAt("profile", profile_name, GetEntry(profile_name),
                 "Failed to delete credentials from keyring")

SaveLoginCredentials ==
    \E profile_name \in ProfileNames, credentials \in LoginCredentialsValues :
        SaveAt("login", profile_name, GetLoginEntry(profile_name),
               SerializeLoginCredentials(credentials), credentials)

LoadLoginCredentials ==
    \E profile_name \in ProfileNames :
        LoadAt("login", profile_name, GetLoginEntry(profile_name),
               "Failed to load login credentials from keyring",
               DeserializeLoginCredentials(StoredJson(GetLoginEntry(profile_name))))

DeleteLoginCredentials ==
    \E profile_name \in ProfileNames :
        DeleteAt("login", profile_name, GetLoginEntry(profile_name),
                 "Failed to delete login credentials from keyring")

SaveApptokenCredentials ==
    \E profile_name \in ProfileNames, credentials \in AppTokenCredentialsValues :
        SaveAt("apptoken", profile_name, GetApptokenEntry(profile_name),
               SerializeAppTokenCredentials(credentials), credentials)

LoadApptokenCredentials ==
    \E profile_name \in ProfileNames :
        LoadAt("apptoken", profile_name, GetApptokenEntry(profile_name),
               "Failed to load app token credentials from keyring",
               DeserializeAppTokenCredentials(
                   StoredJson(GetApptokenEntry(profile_name))))

DeleteApptokenCredentials ==
    \E profile_name \in ProfileNames :
        DeleteAt("apptoken", profile_name, GetApptokenEntry(profile_name),
                 "Failed to delete app token credentials from keyring")

EmptyStore == [k \in {} |-> <<>>]

NoRequest == [cmd |-> "none"]

NoNetwork == [client_builds |-> TRUE]

NoReply == [cmd |-> "none", result |-> Ok(Unit), sent |-> <<>>, root |-> None,
            url |-> None]

CredIdle ==
    /\ keyring = EmptyStore
    /\ saved = [p \in Kinds \X ProfileNames |-> None]
    /\ credLast = [cmd |-> "none", kind |-> "none", name |-> <<>>,
                   touched |-> {}, result |-> Ok(Unit)]

CredInit ==
    /\ CredIdle
    /\ request = NoRequest
    /\ network = NoNetwork
    /\ reply = NoReply

CredNext ==
    \/ SaveCredentials
    \/ LoadCredentials
    \/ DeleteCredentials
    \/ SaveLoginCredentials
    \/ LoadLoginCredentials
    \/ DeleteLoginCredentials
    \/ SaveApptokenCredentials
    \/ LoadApptokenCredentials
    \/ DeleteApptokenCredentials

SpecCred == CredInit /\ [][CredNext]_vars

--------------------------------------------------------------------------
\* Credential claims

KeyOf(kind, name) ==
    CASE kind = "profile" -> GetEntry(name)
      [] kind = "login" -> GetLoginEntry(name)
      [] OTHER -> GetApptokenEntry(name)

\* what the store holds for a credential kind of a profile
Stored(store, kind, name) ==
    IF KeyOf(kind, name) \in DOMAIN store THEN Some(store[KeyOf(kind, name)])
    ELSE None

\* C1: a load returns the value of the most recent save of its (kind, profile
\* name) when no delete of that key followed the save, and fails with the
\* keyring's not-found error when the key was deleted since or never saved.
C1_LoadReturnsLastSave ==
    credLast.cmd = "load" =>
        LET last == saved[<<credLast.kind, credLast.name>>] IN
        IF IsSome(last)
        THEN credLast.result.ok /\ credLast.result.val = last[1]
        ELSE ~credLast.result.ok /\ credLast.result.cause = NoEntry

\* a load of session credentials with a negative user id and absent app-token
\* fields has returned them
C1_Witness ==
    /\ credLast.cmd = "load"
    /\ credLast.kind = "profile"
    /\ credLast.result.ok
    /\ credLast.result.val.user_id = Some(-12)
    /\ credLast.result.val.app_token = None

KeysDistinct ==
    \A p1 \in Kinds \X ProfileNames, p2 \in Kinds \X ProfileNames :
        p1 # p2 => KeyOf(p1[1], p1[2]) # KeyOf(p2[1], p2[2])

\* C2: a command on one (kind, profile name) reads and writes only its own
\* key, the composite keys of distinct (kind, profile name) pairs are
\* distinct, and so what is stored for every other pair stays as it was.
C2_OtherKindsUntouched ==
    [][/\ KeysDistinct
       /\ credLast'.touched = {KeyOf(credLast'.kind, credLast'.name)}
       /\ \A k \in Kinds, n \in ProfileNames :
            <<k, n>> # <<credLast'.kind, credLast'.name>> =>
                /\ KeyOf(k, n) \notin credLast'.touched
                /\ Stored(keyring', k, n) = Stored(keyring, k, n)]_vars

\* the login entry of profile "a" was deleted while the session entry of the
\* profile named "login:a" and the app token of "a" are still stored
C2_Witness ==
    /\ credLast.cmd = "delete"
    /\ credLast.kind = "login"
    /\ credLast.name = ProfileNameList[1]
    /\ credLast.result.ok
    /\ IsSome(Stored(keyring, "profile", ProfileNameList[2]))
    /\ IsSome(Stored(keyring, "apptoken", ProfileNameList[1]))

--------------------------------------------------------------------------
\* commands/http.rs: the client, the headers and the exchange with the server

DefaultTimeoutSeconds == 30

\* build_client: ClientBuilder::build fails when the TLS backend cannot start
BuildClient(timeout_seconds, client_builds) ==
    IF client_builds
    THEN Ok([timeout |-> IF IsSome(timeout_seconds) THEN timeout_seconds
                         ELSE Some(DefaultTimeoutSeconds),
             cookie_store |-> TRUE])
    ELSE Err("Failed to build HTTP client", "builder error")

UpperLetters ==
    <<"A", "B", "C", "D", "E", "F", "G", "H", "I", "J", "K", "L", "M", "N", "O", "P", "Q", "R", "S", "T", "U", "V", "W", "X", "Y", "Z">>

LowerLetters ==
    <<"a", "b", "c", "d", "e", "f", "g", "h", "i", "j", "k", "l", "m", "n", "o", "p", "q", "r", "s", "t", "u", "v", "w", "x", "y", "z">>

IsUpper(c) == \E i \in 1..26 : UpperLetters[i] = c

IsLower(c) == \E i \in 1..26 : LowerLetters[i] = c

ToLowerChar(c) ==
    IF IsUpper(c) THEN LowerLetters[CHOOSE i \in 1..26 : UpperLetters[i] = c]
    ELSE c

ToLower(s) == [i \in 1..Len(s) |-> ToLowerChar(s[i])]

TokenPunctuation ==
    {"!", "#", "$", "%", "&", "*", "+", "-", ".", "^", "_", "|", "~"}

IsTokenChar(c) == IsUpper(c) \/ IsLower(c) \/ IsDigit(c) \/ c \in TokenPunctuation

\* bytes a HeaderValue may not hold (line breaks and other control bytes) and
\* a byte outside visible ASCII, which HeaderValue::to_str refuses
ControlChars == {"\n", "\r"}

OpaqueByte == "0x80"

\* HeaderName::from_bytes: a non-empty token, kept in lower case
HeaderNameFromBytes(key) ==
    IF Len(key) > 0 /\ \A i \in 1..Len(key) : IsTokenChar(key[i])
    THEN Some(ToLower(key))
    ELSE None

\* HeaderValue::from_str and str::parse::<HeaderValue>()
HeaderValueFromStr(value) ==
    IF \A i \in 1..Len(value) : value[i] \notin ControlChars
    THEN Some(value)
    ELSE None

EmptyMap == [k \in {} |-> <<>>]

\* HeaderMap::insert and HashMap::insert: the value of an existing key is replaced
Insert(m, k, v) == [x \in (DOMAIN m) \cup {k} |-> IF x = k THEN v ELSE m[x]]

ACCEPT == <<"a", "c", "c", "e", "p", "t">>

CONTENT_TYPE == <<"c", "o", "n", "t", "e", "n", "t", "-", "t", "y", "p", "e">>

AUTHORIZATION == <<"a", "u", "t", "h", "o", "r", "i", "z", "a", "t", "i", "o", "n">>

UserIdHeader == ToLower(<<"U", "s", "e", "r", "I", "D">>)

AuthenticationTokenHeader == ToLower(<<"A", "u", "t", "h", "e", "n", "t", "i", "c", "a", "t", "i", "o", "n", "T", "o", "k", "e", "n">>)

ApplicationJson == <<"a", "p", "p", "l", "i", "c", "a", "t", "i", "o", "n", "/", "j", "s", "o", "n">>

BearerPrefix == <<"B", "e", "a", "r", "e", "r", " ">>

RECURSIVE InsertCustom(_, _)
\* the loop over the caller's headers, in the HashMap's iteration order
InsertCustom(headers, custom) ==
    IF Len(custom) = 0 THEN Ok(headers)
    ELSE IF HeaderNameFromBytes(custom[1][1]) = None
    THEN Err("Invalid header key", custom[1][1])
    ELSE IF HeaderValueFromStr(custom[1][2]) = None
    THEN Err("Invalid header value for", custom[1][1])
    ELSE InsertCustom(Insert(headers, HeaderNameFromBytes(custom[1][1])[1],
                             custom[1][2]),
                      Tail(custom))

WithDefaults == Insert(Insert(EmptyMap, ACCEPT, ApplicationJson),
                       CONTENT_TYPE, ApplicationJson)

WithUserId(headers, user_id) ==
    IF IsSome(user_id) THEN Insert(headers, UserIdHeader, I32ToString(user_id[1]))
    ELSE headers

WithAuthTokenBearerOnly(headers, auth_token) ==
    IF IsSome(auth_token)
    THEN Insert(headers, AUTHORIZATION, BearerPrefix \o auth_token[1])
    ELSE headers

WithAuthToken(headers, auth_token) ==
    IF IsSome(auth_token)
    THEN Insert(Insert(headers, AUTHORIZATION, BearerPrefix \o auth_token[1]),
                AuthenticationTokenHeader, auth_token[1])
    ELSE headers

\* build_headers; custom_headers is the caller's map in its iteration order
BuildHeaders(custom_headers, user_id, auth_token) ==
    IF IsSome(auth_token) /\ HeaderValueFromStr(BearerPrefix \o auth_token[1]) = None
    THEN Err("Invalid authorization header", auth_token[1])
    ELSE InsertCustom(WithAuthToken(WithUserId(WithDefaults, user_id), auth_token),
                      IF IsSome(custom_headers) THEN custom_headers[1] ELSE <<>>)

\* StatusCode::is_success
IsSuccess(status) == 200 <= status /\ status <= 299

HttpScheme == <<"h", "t", "t", "p", ":", "/", "/">>

HttpsScheme == <<"h", "t", "t", "p", "s", ":", "/", "/">>

\* Url::parse inside Client::get / Client::post: an absolute http(s) URL with a host
IsRequestUrl(url) ==
    \/ StartsWith(url, HttpScheme) /\ Len(url) > Len(HttpScheme)
                                   /\ url[Len(HttpScheme) + 1] # "/"
    \/ StartsWith(url, HttpsScheme) /\ Len(url) > Len(HttpsScheme)
                                    /\ url[Len(HttpsScheme) + 1] # "/"

HttpRequest(method, url, headers, body, client) ==
    [method |-> method, url |-> url, headers |-> headers, body |-> body,
     timeout |-> client.timeout]

\* RequestBuilder::send: nothing leaves when the URL does not parse
Sent(method, url, headers, body, client) ==
    IF IsRequestUrl(url) THEN <<HttpRequest(method, url, headers, body, client)>>
    ELSE <<>>

\* whether send() returned a response
Responded(url, net) == IsRequestUrl(url) /\ net.connects

\* Response::text
BodyText(net) == IF net.body_read THEN Some(net.body) ELSE None

RECURSIVE CollectHeaders(_, _)
\* the loop of response_to_http_response: values that are not visible ASCII are skipped
CollectHeaders(headers, received) ==
    IF Len(received) = 0 THEN headers
    ELSE IF \E i \in 1..Len(received[1][2]) : received[1][2][i] = OpaqueByte
    THEN CollectHeaders(headers, Tail(received))
    ELSE CollectHeaders(Insert(headers, received[1][1], received[1][2]),
                        Tail(received))

\* response_to_http_response
ResponseToHttpResponse(net) ==
    IF IsSome(BodyText(net))
    THEN Ok([status |-> net.status, body |-> BodyText(net)[1],
             headers |-> CollectHeaders(EmptyMap, net.headers)])
    ELSE Err("Failed to read response body", "body")

\* serde_json::from_str::<Value> on the documents the model's servers send:
\* empty arrays and objects, null, booleans, unsigned numbers, plain strings
ParseJsonValue(body) ==
    IF body = <<"[", "]">> THEN Ok([type |-> "array", text |-> <<>>])
    ELSE IF body = <<"{", "}">> THEN Ok([type |-> "object", text |-> <<>>])
    ELSE IF body = <<"n", "u", "l", "l">> THEN Ok([type |-> "null", text |-> <<>>])
    ELSE IF body = <<"t", "r", "u", "e">> \/ body = <<"f", "a", "l", "s", "e">> THEN Ok([type |-> "bool", text |-> body])
    ELSE IF AllDigits(body) /\ (Len(body) = 1 \/ body[1] # "0")
    THEN Ok([type |-> "number", text |-> body])
    ELSE IF IsJsonString(body) /\ \A i \in 2..(Len(body) - 1) : body[i] \notin {Quote, "\\"}
    THEN Ok([type |-> "string", text |-> UnJsonString(body)])
    ELSE Err("Failed to parse as JSON", "syntax")

--------------------------------------------------------------------------
\* commands/http.rs: the three commands

Reply(cmd, result, sent, root, url) ==
    [cmd |-> cmd, result |-> result, sent |-> sent, root |-> root, url |-> url]

CoreApiOData == <<"/", "C", "o", "r", "e", "A", "p", "i", "/", "O", "D", "a", "t", "a">>

ODataApi == <<"/", "O", "D", "a", "t", "a", "A", "p", "i">>

LowerOdata == <<"/", "o", "d", "a", "t", "a">>

Slash == <<"/">>

\* the canonical and alias branches taken "as-is", trailing slash kept
OdataBaseAsIs(base_url) ==
    IF EndsWith(base_url, CoreApiOData) \/ EndsWith(base_url, CoreApiOData \o Slash)
    THEN base_url
    ELSE IF EndsWith(base_url, ODataApi) \/ EndsWith(base_url, ODataApi \o Slash)
    THEN TrimEndMatches(Replace(base_url, ODataApi, CoreApiOData), "/")
    ELSE IF EndsWith(base_url, LowerOdata) \/ EndsWith(base_url, LowerOdata \o Slash)
    THEN base_url
    ELSE TrimEndMatches(base_url, "/") \o CoreApiOData

\* let odata_base = if ... else if ... else { format!(...) }
OdataBase(base_url) ==
    IF EndsWith(base_url, CoreApiOData) \/ EndsWith(base_url, CoreApiOData \o Slash)
    THEN TrimEndMatches(base_url, "/")
    ELSE IF EndsWith(base_url, ODataApi) \/ EndsWith(base_url, ODataApi \o Slash)
    THEN TrimEndMatches(Replace(base_url, ODataApi, CoreApiOData), "/")
    ELSE IF EndsWith(base_url, LowerOdata) \/ EndsWith(base_url, LowerOdata \o Slash)
    THEN TrimEndMatches(base_url, "/")
    ELSE TrimEndMatches(base_url, "/") \o CoreApiOData

\* if let Some(n) = top/skip { query_params.push(format!("$name={}", n)) }
PushNumber(name, o) ==
    IF IsSome(o) THEN <<name \o <<"=">> \o I32ToString(o[1])>> ELSE <<>>

\* if let Some(ref s) = ... { if !s.is_empty() { query_params.push(...) } }
PushText(name, o) ==
    IF IsSome(o) /\ Len(o[1]) > 0 THEN <<name \o <<"=">> \o o[1]>> ELSE <<>>

\* if count.unwrap_or(false) { query_params.push("$count=true") }
PushCount(count) ==
    IF (IF IsSome(count) THEN count[1] ELSE FALSE) THEN <<<<"$", "c", "o", "u", "n", "t", "=", "t", "r", "u", "e">>>> ELSE <<>>

QueryParamsSkipFirst(req) ==
    PushNumber(<<"$", "s", "k", "i", "p">>, req.skip) \o PushNumber(<<"$", "t", "o", "p">>, req.top)
    \o PushText(<<"$", "f", "i", "l", "t", "e", "r">>, req.filter) \o PushText(<<"$", "s", "e", "l", "e", "c", "t">>, req.select)
    \o PushText(<<"$", "e", "x", "p", "a", "n", "d">>, req.expand) \o PushText(<<"$", "o", "r", "d", "e", "r", "b", "y">>, req.orderby)
    \o PushCount(req.count)

\* query_params after the seven pushes
QueryParams(req) ==
    PushNumber(<<"$", "t", "o", "p">>, req.top) \o PushNumber(<<"$", "s", "k", "i", "p">>, req.skip)
    \o PushText(<<"$", "f", "i", "l", "t", "e", "r">>, req.filter) \o PushText(<<"$", "s", "e", "l", "e", "c", "t">>, req.select)
    \o PushText(<<"$", "e", "x", "p", "a", "n", "d">>, req.expand) \o PushText(<<"$", "o", "r", "d", "e", "r", "b", "y">>, req.orderby)
    \o PushCount(req.count)

\* url, once the query string is attached
OdataUrl(req) ==
    IF Len(QueryParams(req)) > 0
    THEN OdataBase(req.base_url) \o Slash \o req.entity \o <<"?">>
         \o Join(QueryParams(req), <<"&">>)
    ELSE OdataBase(req.base_url) \o Slash \o req.entity

OdataResultIgnoresStatus(net) ==
    IF ~IsSome(BodyText(net))
    THEN Err("Failed to read response body", "body")
    ELSE IF ~ParseJsonValue(BodyText(net)[1]).ok
    THEN Err("Failed to parse OData response as JSON", "syntax")
    ELSE Ok(ParseJsonValue(BodyText(net)[1]).val)

\* the status check and the JSON parse that end execute_odata_query
OdataResult(net) ==
    IF ~IsSuccess(net.status)
    THEN Err("OData query failed with status",
             [status |-> net.status,
              body |-> IF IsSome(BodyText(net)) THEN BodyText(net)[1] ELSE <<>>])
    ELSE IF ~IsSome(BodyText(net))
    THEN Err("Failed to read response body", "body")
    ELSE IF ~ParseJsonValue(BodyText(net)[1]).ok
    THEN Err("Failed to parse OData response as JSON", "syntax")
    ELSE Ok(ParseJsonValue(BodyText(net)[1]).val)

\* execute_odata_query
OdataReply(req, net) ==
    LET client == BuildClient(req.timeout_seconds, net.client_builds)
        url == OdataUrl(req)
        headers == BuildHeaders(None, req.user_id, req.auth_token)
    IN  IF ~client.ok THEN Reply(req.cmd, client, <<>>, None, None)
        ELSE IF ~headers.ok
        THEN Reply(req.cmd, headers, <<>>, Some(OdataBase(req.base_url)), Some(url))
        ELSE Reply(req.cmd,
                   IF ~Responded(url, net)
                   THEN Err("OData request failed", "send")
                   ELSE OdataResult(net),
                   Sent("GET", url, headers.val, None, client.val),
                   Some(OdataBase(req.base_url)), Some(url))

FullUrlBaseFirst(url, base_url, endpoint) ==
    IF IsSome(base_url)
    THEN IF IsSome(endpoint)
         THEN Some(TrimEndMatches(base_url[1], "/") \o endpoint[1])
         ELSE base_url
    ELSE IF IsSome(url) THEN url
    ELSE IF IsSome(endpoint) THEN endpoint
    ELSE None

\* let full_url = if let Some(u) = url ... else { return Err("No URL provided...") }
FullUrl(url, base_url, endpoint) ==
    IF IsSome(url) THEN url
    ELSE IF IsSome(base_url)
    THEN IF IsSome(endpoint)
         THEN Some(TrimEndMatches(base_url[1], "/") \o endpoint[1])
         ELSE base_url
    ELSE IF IsSome(endpoint) THEN endpoint
    ELSE None

NoUrlProvided == "No URL provided. Pass 'url' or 'baseUrl' (optionally with 'endpoint')"

\* serde_json::to_vec of the body Value, as RequestBuilder::json does
SerializeJsonValue(v) ==
    CASE v.type = "array" -> <<"[", "]">>
      [] v.type = "object" -> <<"{", "}">>
      [] v.type = "null" -> <<"n", "u", "l", "l">>
      [] v.type = "string" -> JsonString(v.text)
      [] OTHER -> v.text

\* execute_rest_get and execute_rest_post, which differ in the method, the
\* body and the wording of the transport error
RestReply(method, body, failed, req, net) ==
    LET client == BuildClient(req.timeout_seconds, net.client_builds)
        full_url == FullUrl(req.url, req.base_url, req.endpoint)
        req_headers == BuildHeaders(req.headers, req.user_id, req.auth_token)
    IN  IF ~client.ok THEN Reply(req.cmd, client, <<>>, None, None)
        ELSE IF ~IsSome(full_url)
        THEN Reply(req.cmd, Err(NoUrlProvided, "url"), <<>>, None, None)
        ELSE IF ~req_headers.ok THEN Reply(req.cmd, req_headers, <<>>, None, full_url)
        ELSE Reply(req.cmd,
                   IF ~Responded(full_url[1], net) THEN Err(failed, "send")
                   ELSE ResponseToHttpResponse(net),
                   Sent(method, full_url[1], req_headers.val, body, client.val),
                   None, full_url)

ExecuteOdataQuery ==
    /\ request.cmd = "execute_odata_query"
    /\ reply = NoReply
    /\ reply' = OdataReply(request, network)
    /\ UNCHANGED <<request, network, credVars>>

ExecuteRestGet ==
    /\ request.cmd = "execute_rest_get"
    /\ reply = NoReply
    /\ reply' = RestReply("GET", None, "GET request failed", request, network)
    /\ UNCHANGED <<request, network, credVars>>

ExecuteRestPost ==
    /\ request.cmd = "execute_rest_post"
    /\ reply = NoReply
    /\ reply' = RestReply("POST", Some(SerializeJsonValue(request.body)),
                          "POST request failed", request, network)
    /\ UNCHANGED <<request, network, credVars>>

--------------------------------------------------------------------------
\* The calls the frontend makes to the HTTP commands, and the servers' answers

Host == <<"h", "t", "t", "p", ":", "/", "/", "h">>

PathSegments == <<ODataApi, CoreApiOData, LowerOdata, Slash, <<"/", "x">>>>

\* the longest base_url path, in segments
MaxSegments == 2

RECURSIVE PathsOf(_)
PathsOf(n) ==
    IF n = 0 THEN {<<>>}
    ELSE PathsOf(n - 1)
         \cup {p \o PathSegments[i] : p \in PathsOf(n - 1), i \in 1..Len(PathSegments)}

BaseUrls == {Host \o p : p \in PathsOf(MaxSegments)}

Entity == <<"I", "n", "c">>

OptTexts(text) == {None, Some(<<>>), Some(text)}

OkResponse ==
    [client_builds |-> TRUE, connects |-> TRUE, status |-> 200, body |-> <<"[", "]">>,
     body_read |-> TRUE, headers |-> <<>>]

Statuses == {200, 204, 304, 404, 500}

Bodies == {<<"[", "]">>, <<"7">>, <<"<", "x", "/", ">">>, <<>>}

ResponseHeaders ==
    { <<>>,
      << <<<<"e", "t", "a", "g">>, <<"a">>>>, <<<<"x", "-", "r", "a", "w">>, <<OpaqueByte>> >>, <<<<"e", "t", "a", "g">>, <<"b">>>> >> }

Networks ==
    { [OkResponse EXCEPT !.client_builds = FALSE],
      [OkResponse EXCEPT !.connects = FALSE] }
    \cup { [client_builds |-> TRUE, connects |-> TRUE, status |-> st, body |-> b,
            body_read |-> r, headers |-> h] :
           st \in Statuses, b \in Bodies, r \in BOOLEAN, h \in ResponseHeaders }

OdataRequest(base_url, top, skip, filter, select, expand, orderby, count, user_id, auth_token, timeout_seconds) ==
    [cmd |-> "execute_odata_query", base_url |-> base_url, entity |-> Entity,
     top |-> top, skip |-> skip, filter |-> filter, select |-> select,
     expand |-> expand, orderby |-> orderby, count |-> count,
     user_id |-> user_id, auth_token |-> auth_token,
     timeout_seconds |-> timeout_seconds]

UserIds == {None, Some(7)}

AuthTokens == {None, Some(<<"t", "k">>), Some(<<"t", "\n">>)}

\* every base_url, with and without $top and $count
OdataBaseCalls ==
    { OdataRequest(b, top, None, None, None, None, None, count, None, None, None) :
        b \in BaseUrls, top \in {None, Some(10)}, count \in {None, Some(TRUE)} }

\* every combination of the optional query arguments
OdataParamCalls ==
    { OdataRequest(Host \o LowerOdata, top, skip, filter, select, expand, orderby,
                   count, None, None, None) :
        top \in {None, Some(10), Some(-1)}, skip \in {None, Some(0)},
        filter \in OptTexts(<<"a", "&", "b">>), select \in OptTexts(<<"I", "d">>),
        expand \in OptTexts(<<"X">>), orderby \in OptTexts(<<"I", "d", " ", "d", "e", "s", "c">>),
        count \in {None, Some(FALSE), Some(TRUE)} }

\* the authentication arguments of an OData call
OdataAuthCalls ==
    { OdataRequest(Host, Some(10), None, None, None, None, None, None,
                   user_id, auth_token, timeout_seconds) :
        user_id \in UserIds, auth_token \in AuthTokens,
        timeout_seconds \in {None, Some(5)} }

RestRequest(cmd, url, base_url, endpoint, headers, user_id, auth_token) ==
    [cmd |-> cmd, url |-> url, base_url |-> base_url, endpoint |-> endpoint,
     body |-> [type |-> "object", text |-> <<>>], headers |-> headers,
     user_id |-> user_id, auth_token |-> auth_token, timeout_seconds |-> None]

RestCommands == {"execute_rest_get", "execute_rest_post"}

RestUrl == Host \o <<"/", "u">>

RestBases ==
    {None, Some(<<>>), Some(Host), Some(Host \o Slash), Some(Host \o Slash \o Slash)}

RestEndpoints ==
    {None, Some(<<>>), Some(<<"/", "e">>), Some(<<"e">>), Some(<<"/", "/", "e">>), Some(Host \o <<"/", "x">>)}

\* every way of naming the URL
RestUrlCalls ==
    { RestRequest(cmd, url, base_url, endpoint, None, None, None) :
        cmd \in RestCommands, url \in {None, Some(RestUrl), Some(<<>>)},
        base_url \in RestBases, endpoint \in RestEndpoints }

CustomEntries ==
    { <<<<"A", "c", "c", "e", "p", "t">>, <<"t", "e", "x", "t", "/", "x", "m", "l">>>>,
      <<<<"a", "c", "c", "e", "p", "t">>, <<"a", "/", "b">>>>,
      <<<<"C", "o", "n", "t", "e", "n", "t", "-", "T", "y", "p", "e">>, <<"t", "e", "x", "t", "/", "x", "m", "l">>>>,
      <<<<"A", "u", "t", "h", "o", "r", "i", "z", "a", "t", "i", "o", "n">>, <<"B", "a", "s", "i", "c", " ", "x">>>>,
      <<<<"A", "u", "t", "h", "e", "n", "t", "i", "c", "a", "t", "i", "o", "n", "T", "o", "k", "e", "n">>, <<"y">>>>,
      <<<<"X", "-", "T", "r", "a", "c", "e">>, <<"1">>>>,
      <<<<"b", "a", "d", " ", "n", "a", "m", "e">>, <<"1">>>>,
      <<<<"X", "-", "B", "a", "d">>, <<"v", "\n">> >> }

\* the most entries a caller's header map holds
MaxCustomHeaders == 2

RECURSIVE HeaderLists(_)
\* the iteration orders of the maps of at most n entries: no key twice
HeaderLists(n) ==
    IF n = 0 THEN {<<>>}
    ELSE HeaderLists(n - 1)
         \cup { Append(l, e) : l \in {x \in HeaderLists(n - 1) : Len(x) = n - 1},
                               e \in CustomEntries }

DistinctKeys(l) == \A i \in 1..Len(l), j \in 1..Len(l) : i # j => l[i][1] # l[j][1]

CustomHeaders ==
    {None} \cup {Some(l) : l \in {x \in HeaderLists(MaxCustomHeaders) : DistinctKeys(x)}}

\* every header map, user id and token
RestHeaderCalls ==
    { RestRequest(cmd, Some(RestUrl), None, None, headers, user_id, auth_token) :
        cmd \in RestCommands, headers \in CustomHeaders,
        user_id \in UserIds, auth_token \in AuthTokens }

HttpInit ==
    /\ CredIdle
    /\ reply = NoReply
    /\ \/ request \in OdataBaseCalls \cup OdataParamCalls \cup RestUrlCalls
                      \cup RestHeaderCalls
          /\ network \in {OkResponse, [OkResponse EXCEPT !.client_builds = FALSE]}
       \/ request \in OdataAuthCalls
                      \cup { RestRequest(cmd, Some(RestUrl), None, None, None, None, None) :
                             cmd \in RestCommands }
          /\ network \in Networks

HttpNext ==
    \/ ExecuteOdataQuery
    \/ ExecuteRestGet
    \/ ExecuteRestPost

SpecHttp == HttpInit /\ [][HttpNext]_vars

--------------------------------------------------------------------------
\* HTTP claims

IsOdata == reply.cmd = "execute_odata_query"

IsRest == reply.cmd \in RestCommands

WithoutSuffix(s, suf) == SubSeq(s, 1, Len(s) - Len(suf))

\* C3: the query root is the base unchanged but for a trailing slash when the
\* base ends in /CoreApi/OData[/] or /odata[/], the base with its trailing
\* /ODataApi[/] replaced by /CoreApi/OData and everything before it left as
\* it was when it ends in the legacy path, and the base (less trailing
\* slashes) followed by /CoreApi/OData otherwise.
C3_QueryRootPerConvention ==
    (IsOdata /\ IsSome(reply.root)) =>
        LET b == request.base_url
            root == reply.root[1]
        IN  CASE EndsWith(b, CoreApiOData) -> root = b
              [] EndsWith(b, CoreApiOData \o Slash) -> root = WithoutSuffix(b, Slash)
              [] EndsWith(b, ODataApi) ->
                    root = WithoutSuffix(b, ODataApi) \o CoreApiOData
              [] EndsWith(b, ODataApi \o Slash) ->
                    root = WithoutSuffix(b, ODataApi \o Slash) \o CoreApiOData
              [] EndsWith(b, LowerOdata) -> root = b
              [] EndsWith(b, LowerOdata \o Slash) -> root = WithoutSuffix(b, Slash)
              [] OTHER -> root = TrimEndMatches(b, "/") \o CoreApiOData

\* the parameters the caller supplied, in the documented order, each with the
\* text of its value when it is to be emitted
DocumentedParams(req) ==
    << <<<<"$", "t", "o", "p">>, IF req.top = None THEN None ELSE Some(I32ToString(req.top[1]))>>,
       <<<<"$", "s", "k", "i", "p">>, IF req.skip = None THEN None ELSE Some(I32ToString(req.skip[1]))>>,
       <<<<"$", "f", "i", "l", "t", "e", "r">>, IF req.filter \in {None, Some(<<>>)} THEN None ELSE req.filter>>,
       <<<<"$", "s", "e", "l", "e", "c", "t">>, IF req.select \in {None, Some(<<>>)} THEN None ELSE req.select>>,
       <<<<"$", "e", "x", "p", "a", "n", "d">>, IF req.expand \in {None, Some(<<>>)} THEN None ELSE req.expand>>,
       <<<<"$", "o", "r", "d", "e", "r", "b", "y">>, IF req.orderby \in {None, Some(<<>>)} THEN None ELSE req.orderby>>,
       <<<<"$", "c", "o", "u", "n", "t">>, IF req.count = Some(TRUE) THEN Some(<<"t", "r", "u", "e">>) ELSE None>> >>

Emitted(param) == param[2] # None

RECURSIVE QueryString(_)
QueryString(params) ==
    IF Len(params) = 0 THEN <<>>
    ELSE (IF Len(params) = 1 THEN <<>> ELSE QueryString(SubSeq(params, 1, Len(params) - 1)) \o <<"&">>)
         \o params[Len(params)][1] \o <<"=">> \o params[Len(params)][2][1]

\* C4: the request URL is <query root>/<entity>, then, when at least one
\* parameter is present and non-empty, '?' and exactly those parameters as
\* name=value joined by '&' in the order $top, $skip, $filter, $select,
\* $expand, $orderby, $count=true, the values verbatim; with no parameter to
\* emit the URL ends with the entity.
C4_QueryStringAssembly ==
    (IsOdata /\ IsSome(reply.url)) =>
        LET emitted == SelectSeq(DocumentedParams(request), Emitted)
            path == reply.root[1] \o <<"/">> \o request.entity
        IN  reply.url[1] = IF Len(emitted) = 0 THEN path
                            ELSE path \o <<"?">> \o QueryString(emitted)

\* top=10 and count=true with an empty filter were sent as ?$top=10&$count=true
C4_Witness ==
    /\ IsOdata
    /\ request.filter = Some(<<>>)
    /\ request.skip = None
    /\ Len(reply.sent) = 1
    /\ reply.sent[1].url = <<"h", "t", "t", "p", ":", "/", "/", "h", "/", "o", "d", "a", "t", "a", "/", "I", "n", "c", "?", "$", "t", "o", "p", "=", "1", "0", "&", "$", "c", "o", "u", "n", "t", "=", "t", "r", "u", "e">>

\* the caller's headers of the command answered: execute_odata_query passes None
CustomOf(req) == IF req.cmd = "execute_odata_query" THEN <<>>
                 ELSE IF req.headers = None THEN <<>> ELSE req.headers[1]

NoCustom(req) == req.cmd = "execute_odata_query" \/ req.headers = None

Holds(h, name, value) == name \in DOMAIN h /\ h[name] = value

\* the values the caller gave for a header name, whatever the case of the key
CustomValues(req, name) ==
    {CustomOf(req)[i][2] : i \in {j \in 1..Len(CustomOf(req)) :
                                    ToLower(CustomOf(req)[j][1]) = name}}

DefaultsWhenNoCustom(h) ==
    NoCustom(request) =>
        /\ Holds(h, <<"a", "c", "c", "e", "p", "t">>, <<"a", "p", "p", "l", "i", "c", "a", "t", "i", "o", "n", "/", "j", "s", "o", "n">>)
        /\ Holds(h, <<"c", "o", "n", "t", "e", "n", "t", "-", "t", "y", "p", "e">>, <<"a", "p", "p", "l", "i", "c", "a", "t", "i", "o", "n", "/", "j", "s", "o", "n">>)

CustomReplaces(h) ==
    \A i \in 1..Len(CustomOf(request)) :
        LET name == ToLower(CustomOf(request)[i][1]) IN
        name \in DOMAIN h /\ h[name] \in CustomValues(request, name)

\* C7 as stated: every request carries Accept and Content-Type
\* application/json when no custom headers are given; a supplied auth_token
\* always yields Authorization: Bearer <token> and AuthenticationToken:
\* <token>; a custom header replaces the default of its name.
C7_TokenAlwaysSentTwice ==
    \A r \in 1..Len(reply.sent) :
        LET h == reply.sent[r].headers IN
        /\ DefaultsWhenNoCustom(h)
        /\ IsSome(request.auth_token) =>
              /\ Holds(h, <<"a", "u", "t", "h", "o", "r", "i", "z", "a", "t", "i", "o", "n">>, <<"B", "e", "a", "r", "e", "r", " ">> \o request.auth_token[1])
              /\ Holds(h, <<"a", "u", "t", "h", "e", "n", "t", "i", "c", "a", "t", "i", "o", "n", "t", "o", "k", "e", "n">>, request.auth_token[1])
        /\ CustomReplaces(h)

\* C7 amended: every request carries Accept and Content-Type
\* application/json when no custom headers are given; a supplied auth_token
\* yields Authorization: Bearer <token> and AuthenticationToken: <token>,
\* each unless a custom header of that name is given; a custom header
\* replaces the default of its name.
C7_HeadersBuilt ==
    \A r \in 1..Len(reply.sent) :
        LET h == reply.sent[r].headers IN
        /\ DefaultsWhenNoCustom(h)
        /\ IsSome(request.auth_token) =>
              /\ CustomValues(request, <<"a", "u", "t", "h", "o", "r", "i", "z", "a", "t", "i", "o", "n">>) = {} =>
                    Holds(h, <<"a", "u", "t", "h", "o", "r", "i", "z", "a", "t", "i", "o", "n">>, <<"B", "e", "a", "r", "e", "r", " ">> \o request.auth_token[1])
              /\ CustomValues(request, <<"a", "u", "t", "h", "e", "n", "t", "i", "c", "a", "t", "i", "o", "n", "t", "o", "k", "e", "n">>) = {} =>
                    Holds(h, <<"a", "u", "t", "h", "e", "n", "t", "i", "c", "a", "t", "i", "o", "n", "t", "o", "k", "e", "n">>, request.auth_token[1])
        /\ CustomReplaces(h)

\* a POST went out with a token, the caller's Accept in place of the default
\* and both token headers
C7_Witness ==
    /\ reply.cmd = "execute_rest_post"
    /\ Len(reply.sent) = 1
    /\ request.auth_token = Some(<<"t", "k">>)
    /\ request.user_id = Some(7)
    /\ Holds(reply.sent[1].headers, <<"a", "c", "c", "e", "p", "t">>, <<"t", "e", "x", "t", "/", "x", "m", "l">>)
    /\ Holds(reply.sent[1].headers, <<"a", "u", "t", "h", "o", "r", "i", "z", "a", "t", "i", "o", "n">>, <<"B", "e", "a", "r", "e", "r", " ", "t", "k">>)
    /\ Holds(reply.sent[1].headers, <<"a", "u", "t", "h", "e", "n", "t", "i", "c", "a", "t", "i", "o", "n", "t", "o", "k", "e", "n">>, <<"t", "k">>)
    /\ Holds(reply.sent[1].headers, <<"c", "o", "n", "t", "e", "n", "t", "-", "t", "y", "p", "e">>, <<"a", "p", "p", "l", "i", "c", "a", "t", "i", "o", "n", "/", "j", "s", "o", "n">>)

\* the server answered the request of this command with a status, and the
\* body arrived
Answered == Len(reply.sent) = 1 /\ network.connects /\ network.body_read

Is2xx(status) == status \in 200..299

\* C8: execute_rest_get and execute_rest_post return Ok with the server's
\* status for every status code; execute_odata_query returns an error
\* holding the status and the body for every status outside 2xx, a value
\* only for a 2xx status whose body parses as JSON, and a parse error of
\* its own for a 2xx body that does not parse.
C8_StatusHandling ==
    /\ (IsRest /\ Answered) =>
          /\ reply.result.ok
          /\ reply.result.val.status = network.status
          /\ reply.result.val.body = network.body
    /\ (IsOdata /\ Len(reply.sent) = 1 /\ network.connects
        /\ ~Is2xx(network.status)) =>
          /\ ~reply.result.ok
          /\ reply.result.msg = "OData query failed with status"
          /\ reply.result.cause.status = network.status
          /\ network.body_read => reply.result.cause.body = network.body
    /\ (IsOdata /\ reply.result.ok) =>
          /\ Answered
          /\ Is2xx(network.status)
          /\ ParseJsonValue(network.body).ok
          /\ reply.result.val = ParseJsonValue(network.body).val
    /\ (IsOdata /\ Answered /\ Is2xx(network.status)
        /\ ~ParseJsonValue(network.body).ok) =>
          /\ ~reply.result.ok
          /\ reply.result.msg = "Failed to parse OData response as JSON"

\* a POST answered 500 came back as Ok with status 500
C8_Witness ==
    /\ reply.cmd = "execute_rest_post"
    /\ network.status = 500
    /\ reply.result.ok
    /\ reply.result.val.status = 500

\* an OData query answered 404 came back as the status error with the body
C8_WitnessOdata ==
    /\ IsOdata
    /\ network.status = 404
    /\ ~reply.result.ok
    /\ reply.result.msg = "OData query failed with status"
    /\ reply.result.cause.body = <<"<", "x", "/", ">">>

C9_WitnessUrl ==
    /\ reply.cmd = "execute_rest_post"
    /\ request.url = Some(RestUrl)
    /\ request.base_url # None /\ request.endpoint # None
    /\ Len(reply.sent) = 1
    /\ reply.sent[1].url = RestUrl

\* C10: without url, a non-empty base_url and a non-empty endpoint are joined
\* with exactly one '/' between them, whatever slashes end the base and
\* start the endpoint.
C10_SlashNormalized ==
    (IsRest /\ IsSome(reply.url) /\ request.url = None
     /\ request.base_url \notin {None, Some(<<>>)}
     /\ request.endpoint \notin {None, Some(<<>>)}) =>
        reply.url[1] = TrimEndMatches(request.base_url[1], "/") \o <<"/">>
                       \o TrimStartMatches(request.endpoint[1], "/")

\* C11: the query root computed by execute_odata_query never ends in '/',
\* ends in /CoreApi/OData or in /odata, and is a fixed point of the
\* normalization: computed again from the root as base_url, it is the same
\* root.
C11_RootShapeAndIdempotent ==
    (IsOdata /\ IsSome(reply.root)) =>
        LET root == reply.root[1]
        IN  /\ ~EndsWith(root, Slash)
            /\ EndsWith(root, CoreApiOData) \/ EndsWith(root, LowerOdata)
            /\ OdataBase(root) = root

\* a legacy base with a trailing slash was rewritten, and the root it gave is
\* its own root
C11_Witness ==
    /\ IsOdata /\ IsSome(reply.root)
    /\ EndsWith(request.base_url, ODataApi \o Slash)
    /\ reply.root[1] # request.base_url
    /\ EndsWith(reply.root[1], CoreApiOData)
    /\ OdataBase(reply.root[1]) = reply.root[1]
    /\ Len(reply.sent) = 1

--------------------------------------------------------------------------
\* commands/version.rs

\* str::parse::<u32>(): digits after an optional '+'. The model's versions
\* are shorter than ten characters, so no component exceeds u32::MAX.
ParseU32(part) ==
    IF Len(part) > 1 /\ part[1] = "+" /\ AllDigits(Tail(part))
    THEN Some(DigitsToNat(Tail(part), 0))
    ELSE IF AllDigits(part) THEN Some(DigitsToNat(part, 0))
    ELSE None

IsU32(part) == ParseU32(part) # None

RECURSIVE Numbers(_)
Numbers(parts) ==
    IF Len(parts) = 0 THEN <<>> ELSE <<ParseU32(parts[1])[1]>> \o Numbers(Tail(parts))

\* the closure parse: split('.'), filter_map(parse::<u32>().ok()), collect
ParseVersion(v) == Numbers(SelectSeq(Split(v, "."), IsU32))

\* parts.get(i).copied().unwrap_or(0), i counted from 1
PartOrZero(parts, i) == IF i <= Len(parts) THEN parts[i] ELSE 0

RECURSIVE NewerFrom(_, _, _)
\* the loop for i in 0..3, from its i-th round on
NewerFrom(current_parts, latest_parts, i) ==
    IF i > 3 THEN FALSE
    ELSE IF PartOrZero(latest_parts, i) > PartOrZero(current_parts, i) THEN TRUE
    ELSE IF PartOrZero(latest_parts, i) < PartOrZero(current_parts, i) THEN FALSE
    ELSE NewerFrom(current_parts, latest_parts, i + 1)

\* is_newer_version
IsNewerVersion(current, latest) ==
    NewerFrom(ParseVersion(current), ParseVersion(latest), 1)

\* serde_json for GitHubRelease: tag_name and html_url are required strings,
\* body is optional; members the struct does not name are ignored
DeserializeGitHubRelease(doc) ==
    IF /\ doc.json
       /\ HasField(doc.members, "tag_name") /\ IsJsonString(Field(doc.members, "tag_name"))
       /\ HasField(doc.members, "html_url") /\ IsJsonString(Field(doc.members, "html_url"))
    THEN Ok([tag_name |-> UnJsonString(Field(doc.members, "tag_name")),
             html_url |-> UnJsonString(Field(doc.members, "html_url")),
             body |-> ReadOptString(doc.members, "body")])
    ELSE Err("Failed to parse release info", "json")

ReleasesUrl(owner, repo) ==
    <<"h", "t", "t", "p", "s", ":", "/", "/", "a", "p", "i", ".", "g", "i", "t", "h", "u", "b", ".", "c", "o", "m", "/", "r", "e", "p", "o", "s", "/">> \o owner \o Slash \o repo
    \o <<"/", "r", "e", "l", "e", "a", "s", "e", "s", "/", "l", "a", "t", "e", "s", "t">>

VersionResultNotFoundIsError(current, net) ==
    IF ~IsSuccess(net.status)
    THEN Err("GitHub API returned status",
             [status |-> net.status,
              body |-> IF IsSome(BodyText(net)) THEN BodyText(net)[1] ELSE <<>>])
    ELSE IF ~IsSome(BodyText(net)) \/ ~DeserializeGitHubRelease(net.body).ok
    THEN Err("Failed to parse release info", "json")
    ELSE Ok([current_version |-> current,
             latest_version |->
                 Some(TrimStartMatches(DeserializeGitHubRelease(net.body).val.tag_name, "v")),
             update_available |->
                 IsNewerVersion(current,
                     TrimStartMatches(DeserializeGitHubRelease(net.body).val.tag_name, "v")),
             release_url |-> Some(DeserializeGitHubRelease(net.body).val.html_url),
             release_notes |-> DeserializeGitHubRelease(net.body).val.body])

\* check_for_updates from the status check on
VersionResult(current, net) ==
    IF net.status = 404
    THEN Ok([current_version |-> current, latest_version |-> None,
             update_available |-> FALSE, release_url |-> None,
             release_notes |-> None])
    ELSE IF ~IsSuccess(net.status)
    THEN Err("GitHub API returned status",
             [status |-> net.status,
              body |-> IF IsSome(BodyText(net)) THEN BodyText(net)[1] ELSE <<>>])
    ELSE IF ~IsSome(BodyText(net)) \/ ~DeserializeGitHubRelease(net.body).ok
    THEN Err("Failed to parse release info", "json")
    ELSE Ok([current_version |-> current,
             latest_version |->
                 Some(TrimStartMatches(DeserializeGitHubRelease(net.body).val.tag_name, "v")),
             update_available |->
                 IsNewerVersion(current,
                     TrimStartMatches(DeserializeGitHubRelease(net.body).val.tag_name, "v")),
             release_url |-> Some(DeserializeGitHubRelease(net.body).val.html_url),
             release_notes |-> DeserializeGitHubRelease(net.body).val.body])

\* the request of check_for_updates: Authorization only with a token
ReleaseRequest(owner, repo, github_token) ==
    [method |-> "GET", url |-> ReleasesUrl(owner, repo),
     headers |-> IF IsSome(github_token)
                 THEN Insert(EmptyMap, AUTHORIZATION, BearerPrefix \o github_token[1])
                 ELSE EmptyMap,
     body |-> None, timeout |-> None]

\* check_for_updates; req.build_version is env!("CARGO_PKG_VERSION")
VersionReply(req, net) ==
    IF ~net.client_builds
    THEN Reply(req.cmd, Err("Failed to build HTTP client", "builder error"),
               <<>>, None, None)
    ELSE IF IsSome(req.github_token)
            /\ HeaderValueFromStr(BearerPrefix \o req.github_token[1]) = None
    THEN Reply(req.cmd, Err("Failed to fetch releases", "builder error"), <<>>,
               None, Some(ReleasesUrl(req.owner, req.repo)))
    ELSE Reply(req.cmd,
               IF ~net.connects THEN Err("Failed to fetch releases", "send")
               ELSE VersionResult(req.build_version, net),
               <<ReleaseRequest(req.owner, req.repo, req.github_token)>>,
               None, Some(ReleasesUrl(req.owner, req.repo)))

GetCurrentVersion ==
    /\ request.cmd = "get_current_version"
    /\ reply = NoReply
    /\ reply' = Reply(request.cmd, Ok(request.build_version), <<>>, None, None)
    /\ UNCHANGED <<request, network, credVars>>

CheckForUpdates ==
    /\ request.cmd = "check_for_updates"
    /\ reply = NoReply
    /\ reply' = VersionReply(request, network)
    /\ UNCHANGED <<request, network, credVars>>

\* is_newer_version applied on its own to a pair of version strings
IsNewerVersionCall ==
    /\ request.cmd = "is_newer_version"
    /\ reply = NoReply
    /\ reply' = Reply(request.cmd, Ok(IsNewerVersion(request.current, request.latest)),
                      <<>>, None, None)
    /\ UNCHANGED <<request, network, credVars>>

\* ---- the version strings and the release server's answers

VersionAlphabet == <<"1", "2", "x", ".">>

\* the longest generated version string, in characters
MaxVersionLen == 3

RECURSIVE StringsUpTo(_)
StringsUpTo(n) ==
    IF n = 0 THEN {<<>>}
    ELSE StringsUpTo(n - 1)
         \cup {Append(s, VersionAlphabet[i]) :
                 s \in {x \in StringsUpTo(n - 1) : Len(x) = n - 1},
                 i \in 1..Len(VersionAlphabet)}

SampleVersions ==
    {<<"1", ".", "2", ".", "3">>, <<"1", ".", "2", ".", "4">>, <<"1", ".", "9", ".", "0">>, <<"2", ".", "0", ".", "0">>, <<"1", ".", "9", ".", "9">>, <<"1", ".", "0">>, <<"1", ".", "0", ".", "0">>,
     <<"1", ".", "0", ".", "0", "-", "b", "e", "t", "a", ".", "2">>, <<"1", ".", "2", ".", "3", ".", "4">>}

Versions == SampleVersions \cup StringsUpTo(MaxVersionLen)

BuildVersions == {<<"1", ".", "0", ".", "0">>, <<"0", ".", "1", ".", "0">>}

Tags == {<<"v", "1", ".", "0", ".", "0">>, <<"v", "1", ".", "0", ".", "1">>, <<"1", ".", "0", ".", "1">>, <<"v", "v", "2", ".", "0", ".", "0">>, <<"v", "0", ".", "0", ".", "9">>, <<"l", "a", "t", "e", "s", "t">>}

ReleaseDocument(tag, notes) ==
    [json |-> TRUE,
     members |-> SelectSeq(<< <<"url", JsonString(<<"u">>)>>,
                              <<"tag_name", JsonString(tag)>>,
                              <<"html_url", JsonString(<<"h", "t", "t", "p", "s", ":", "/", "/", "g", "/", "r">>)>>,
                              OptString("body", notes) >>, Present)]

NoDocument == [json |-> FALSE, members |-> <<>>]

ReleaseBodies ==
    {ReleaseDocument(tag, notes) : tag \in Tags, notes \in {None, Some(<<"n">>)}}
    \cup { NoDocument,
           [json |-> TRUE, members |-> << <<"message", JsonString(<<"N", "o", "t", " ", "F", "o", "u", "n", "d">>)>> >>] }

ReleaseNetworks ==
    { [OkResponse EXCEPT !.client_builds = FALSE, !.body = NoDocument],
      [OkResponse EXCEPT !.connects = FALSE, !.body = NoDocument] }
    \cup { [client_builds |-> TRUE, connects |-> TRUE, status |-> st, body |-> b,
            body_read |-> r, headers |-> <<>>] :
           st \in {200, 304, 403, 404, 500}, b \in ReleaseBodies, r \in BOOLEAN }

VersionInit ==
    /\ CredIdle
    /\ reply = NoReply
    /\ \/ /\ request \in { [cmd |-> "is_newer_version", current |-> c, latest |-> l] :
                            c \in Versions, l \in Versions }
          /\ network = OkResponse
       \/ /\ request \in { [cmd |-> "get_current_version", build_version |-> b] :
                            b \in BuildVersions }
          /\ network = OkResponse
       \/ /\ request \in { [cmd |-> "check_for_updates", build_version |-> b,
                             owner |-> <<"o">>, repo |-> <<"r">>, github_token |-> t] :
                            b \in BuildVersions, t \in AuthTokens }
          /\ network \in ReleaseNetworks

VersionNext ==
    \/ GetCurrentVersion
    \/ CheckForUpdates
    \/ IsNewerVersionCall

SpecVersion == VersionInit /\ [][VersionNext]_vars

--------------------------------------------------------------------------
\* Version claims

\* the i-th dot-separated component as a number, 0 when missing or not a number
Component(v, i) ==
    IF i <= Len(Split(v, ".")) /\ ParseU32(Split(v, ".")[i]) # None
    THEN ParseU32(Split(v, ".")[i])[1]
    ELSE 0

TripleGreater(a, b) ==
    \/ a[1] > b[1]
    \/ a[1] = b[1] /\ a[2] > b[2]
    \/ a[1] = b[1] /\ a[2] = b[2] /\ a[3] > b[3]

Triple(v) == <<Component(v, 1), Component(v, 2), Component(v, 3)>>

\* C5: is_newer_version(current, latest) is true exactly when the triple of
\* the first three dot-separated components of latest, each parsed on its own
\* and counted as 0 in its own position when missing or not a number, is
\* lexicographically greater than that of current.
C5_PositionalComparison ==
    reply.cmd = "is_newer_version" =>
        reply.result.val = TripleGreater(Triple(request.latest), Triple(request.current))

ReleaseAnswered == Len(reply.sent) = 1 /\ network.connects

\* what is left when one leading 'v', if there is one, is removed
StripOneV(tag) == IF Len(tag) > 0 /\ tag[1] = "v" THEN Tail(tag) ELSE tag

RECURSIVE StripAllV(_)
StripAllV(tag) == IF Len(tag) > 0 /\ tag[1] = "v" THEN StripAllV(Tail(tag)) ELSE tag

NoReleaseInfo(info) ==
    /\ info.latest_version = None
    /\ info.update_available = FALSE
    /\ info.release_url = None
    /\ info.release_notes = None

NotFoundAndErrors ==
    /\ (ReleaseAnswered /\ network.status = 404) =>
          /\ reply.result.ok
          /\ NoReleaseInfo(reply.result.val)
          /\ reply.result.val.current_version = request.build_version
    /\ (ReleaseAnswered /\ network.status # 404 /\ ~Is2xx(network.status)) =>
          /\ ~reply.result.ok
          /\ reply.result.msg = "GitHub API returned status"
          /\ reply.result.cause.status = network.status
          /\ network.body_read => reply.result.cause.body = network.body

C6_WitnessUpdate ==
    /\ reply.cmd = "check_for_updates"
    /\ reply.result.ok
    /\ reply.result.val.update_available
    /\ reply.result.val.latest_version = Some(<<"1", ".", "0", ".", "1">>)
    /\ request.build_version = <<"1", ".", "0", ".", "0">>

====
